---------------------------- MODULE Spec2Model ----------------------------
(***************************************************************************)
(* A model of pyalloc's backtest core: Portfolio (src/backtest/portfolio.py)*)
(* and the Strategy driver (src/backtest/strategy.py).                     *)
(*                                                                         *)
(* Numbers.  The program computes with floats; the model computes with     *)
(* exact rationals <<n, d>> (d > 0, lowest terms), so that "sums to 1" and *)
(* "equals" are exact statements.  Rounding and NaN are outside the model. *)
(* assert statements are modelled as executed (the interpreter's default). *)
(***************************************************************************)
EXTENDS Integers, Sequences, FiniteSets, TLC

(***************************************************************************)
(* Bounds of the model.                                                    *)
(***************************************************************************)
\* longest quote feed replayed
MaxFeed == 2
\* invocations of run() on the one Strategy instance
MaxRuns == 2

(***************************************************************************)
(* Exact rational arithmetic, standing for Python's float operators.       *)
(***************************************************************************)
RECURSIVE GCD(_, _)
GCD(a, b) == IF b = 0 THEN a ELSE GCD(b, a % b)

IAbs(n) == IF n < 0 THEN -n ELSE n

\* the rational n/d in lowest terms with a positive denominator (d # 0)
Rat(n, d) ==
    LET g == GCD(IAbs(n), IAbs(d))
        s == IF d < 0 THEN -1 ELSE 1
    IN  <<(s * n) \div g, (s * d) \div g>>

Zero == <<0, 1>>
One == <<1, 1>>

RAdd(x, y) ==
    LET g == GCD(x[2], y[2])
    IN  Rat(x[1] * (y[2] \div g) + y[1] * (x[2] \div g), (x[2] \div g) * y[2])

RNeg(x) == <<-x[1], x[2]>>

RSub(x, y) == RAdd(x, RNeg(y))

RMul(x, y) ==
    LET g1 == GCD(IAbs(x[1]), y[2])
        g2 == GCD(IAbs(y[1]), x[2])
    IN  <<(x[1] \div g1) * (y[1] \div g2), (x[2] \div g2) * (y[2] \div g1)>>

\* x / y for y # 0 (the caller raises ZeroDivisionError before calling it)
RDiv(x, y) ==
    RMul(x, IF y[1] < 0 THEN <<-y[2], -y[1]>> ELSE <<y[2], y[1]>>)

RAbs(x) == <<IAbs(x[1]), x[2]>>

RECURSIVE RSum(_, _)
\* sum of f over the finite set S of its arguments
RSum(f, S) ==
    IF S = {} THEN Zero
    ELSE LET s == CHOOSE e \in S : TRUE IN RAdd(f[s], RSum(f, S \ {s}))

(***************************************************************************)
(* Portfolio (portfolio.py).  A portfolio value is the record              *)
(*   [weight, cash_weight, pct_change, cost, turnover, trading_cost_ratio] *)
(* weight is the dict _weight: a function from its keys to rationals.      *)
(* Sids is the iteration order of that dict (insertion order).             *)
(***************************************************************************)
Sids == <<"A", "B">>

SidSet == {Sids[i] : i \in 1..Len(Sids)}

\* __init__, lines 14-24
NewPortfolio(init_weight, init_cash_weight, trading_cost_ratio) ==
    [weight |-> init_weight,
     cash_weight |-> init_cash_weight,
     pct_change |-> Zero,
     cost |-> Zero,
     turnover |-> Zero,
     trading_cost_ratio |-> trading_cost_ratio]

\* a reset that forgets turnover and cost
ResetAccumulators_OnlyReturn(p) == [p EXCEPT !.pct_change = Zero]

\* lines 40-43 and 69-72: the accumulators are cleared at the start of an update
ResetAccumulators(p) ==
    [p EXCEPT !.pct_change = Zero, !.cost = Zero, !.turnover = Zero]

\* the contribution computed from the weight after its drift
ReturnContribution_AfterDrift(w, r) == RMul(RMul(w, RAdd(One, r)), r)

\* lines 48 and 80: one asset's contribution to the period return
ReturnContribution(w, r) == RMul(w, r)

\* the weight scaled by the return alone
DriftWeight_ReturnOnly(w, r) == RMul(w, r)

\* lines 50 and 82: one asset's weight after the period's price change
DriftWeight(w, r) == RMul(w, RAdd(One, r))

\* lines 58 and 92: an asset weight divided by the total
NormalizeWeight(w, total) == RDiv(w, total)

\* the cash weight left as it was
NormalizeCash_Skipped(c, total) == c

\* lines 61 and 95: the cash weight divided by the total
NormalizeCash(c, total) == RDiv(c, total)

\* lines 54-61 and 89-95: add cash to the total and divide everything by it;
\* a zero total raises ZeroDivisionError at the first division, before any
\* weight has been replaced
Normalize(p, total_assets) ==
    LET total_asset_weight == RAdd(total_assets, p.cash_weight)
    IN  IF total_asset_weight = Zero
        THEN [p |-> p, exc |-> "ZeroDivisionError"]
        ELSE [p |-> [p EXCEPT
                      !.weight = [s \in DOMAIN p.weight |->
                                    NormalizeWeight(p.weight[s], total_asset_weight)],
                      !.cash_weight = NormalizeCash(p.cash_weight, total_asset_weight)],
              exc |-> "none"]

RECURSIVE PriceLoop(_, _, _)
\* lines 46-52: the loop over _weight.keys(), from the i-th key on.
\* st = [p, total, exc]; a quote without the key raises KeyError on line 48,
\* before that asset is touched
PriceLoop(i, q, st) ==
    IF i > Len(Sids) \/ st.exc # "none" THEN st
    ELSE LET sid == Sids[i]
             w == st.p.weight[sid]
         IN  IF sid \notin DOMAIN q
             THEN [st EXCEPT !.exc = "KeyError"]
             ELSE PriceLoop(i + 1, q,
                    [p |-> [st.p EXCEPT
                             !.pct_change = RAdd(@, ReturnContribution(w, q[sid])),
                             !.weight[sid] = DriftWeight(w, q[sid])],
                     total |-> RAdd(st.total, DriftWeight(w, q[sid])),
                     exc |-> "none"])

\* update_by_price, lines 35-61.  q is Context.cur_quotes: asset -> pct_change.
\* The result is the portfolio as the call leaves it and the exception raised.
update_by_price(p, q) ==
    LET st == PriceLoop(1, q, [p |-> ResetAccumulators(p), total |-> Zero, exc |-> "none"])
    IN  IF st.exc # "none" THEN [p |-> st.p, exc |-> st.exc]
        ELSE Normalize(st.p, st.total)

\* an assertion that only asks for a target for every asset held
KeysMatch_Subset(weight, target_weight) == DOMAIN weight \subseteq DOMAIN target_weight

\* line 67: the assertion on the two key sets
KeysMatch(weight, target_weight) == DOMAIN weight = DOMAIN target_weight

\* turnover accumulated without abs
AccumulateTurnover_Signed(turnover, w, t) == RAdd(turnover, RSub(w, t))

\* line 76: turnover += abs(weight - target)
AccumulateTurnover(turnover, w, t) == RAdd(turnover, RAbs(RSub(w, t)))

\* the cost ratio charged whatever the turnover
RetargetWeight_FlatFee(t, turnover, ratio) == RSub(t, ratio)

\* line 78: the weight set at the open, net of the cost of the turnover so far
RetargetWeight(t, turnover, ratio) == RSub(t, RMul(turnover, ratio))

\* line 87
TradingCost(turnover, ratio) == RMul(turnover, ratio)

RECURSIVE RebalanceLoop(_, _, _, _)
\* lines 74-84: a quote without the key raises KeyError on line 80, after
\* lines 76 and 78 have already changed the turnover and the asset's weight
RebalanceLoop(i, q, target_weight, st) ==
    IF i > Len(Sids) \/ st.exc # "none" THEN st
    ELSE LET sid == Sids[i]
             turnover == AccumulateTurnover(st.p.turnover, st.p.weight[sid], target_weight[sid])
             w == RetargetWeight(target_weight[sid], turnover, st.p.trading_cost_ratio)
             opened == [st.p EXCEPT !.turnover = turnover, !.weight[sid] = w]
         IN  IF sid \notin DOMAIN q
             THEN [st EXCEPT !.p = opened, !.exc = "KeyError"]
             ELSE RebalanceLoop(i + 1, q, target_weight,
                    [p |-> [opened EXCEPT
                             !.pct_change = RAdd(@, ReturnContribution(w, q[sid])),
                             !.weight[sid] = DriftWeight(w, q[sid])],
                     total |-> RAdd(st.total, DriftWeight(w, q[sid])),
                     exc |-> "none"])

\* update_by_rebalance, lines 63-95
update_by_rebalance(p, q, target_weight) ==
    IF ~KeysMatch(p.weight, target_weight)
    THEN [p |-> p, exc |-> "AssertionError"]
    ELSE LET st == RebalanceLoop(1, q, target_weight,
                     [p |-> ResetAccumulators(p), total |-> Zero, exc |-> "none"])
             costed == [st.p EXCEPT !.cost = TradingCost(st.p.turnover, st.p.trading_cost_ratio)]
         IN  IF st.exc # "none" THEN [p |-> st.p, exc |-> st.exc]
             ELSE Normalize(costed, st.total)

\* a record stamped by a clock of the portfolio's own instead of the quote's time
get_portfolio_info_Clock(p, cur_time) ==
    [time |-> 0,
     pct_change |-> p.pct_change,
     turnover |-> p.turnover,
     cost |-> p.cost,
     cash_weight |-> p.cash_weight,
     asset_weight |-> p.weight]

\* get_portfolio_info, lines 105-108
get_portfolio_info(p, cur_time) ==
    [time |-> cur_time,
     pct_change |-> p.pct_change,
     turnover |-> p.turnover,
     cost |-> p.cost,
     cash_weight |-> p.cash_weight,
     asset_weight |-> p.weight]

(***************************************************************************)
(* Series and frames (pandas), as ordered rows.  A Series row is           *)
(* [time, value]; a derived attribute of Strategy is [set, rows], where    *)
(* set = FALSE stands for the attribute still holding None.                *)
(***************************************************************************)
None == [set |-> FALSE, rows |-> <<>>]

Some(rows) == [set |-> TRUE, rows |-> rows]

\* the missing value; the arithmetic above never produces it
NaN == <<0, 0>>

\* Series.dropna()
DropNa(s) == SelectSeq(s, LAMBDA e : e.value # NaN)

\* lines 169-171: pd.Series of the records' pct_change, indexed by their time
PctChangeSeries(records) ==
    [i \in 1..Len(records) |-> [time |-> records[i].time, value |-> records[i].pct_change]]

\* lines 178-181
TurnoverSeries(records) ==
    [i \in 1..Len(records) |-> [time |-> records[i].time, value |-> records[i].turnover]]

\* lines 184-187
CostSeries(records) ==
    [i \in 1..Len(records) |-> [time |-> records[i].time, value |-> records[i].cost]]

RECURSIVE CumProdFrom(_, _, _)
CumProdFrom(s, i, acc) ==
    IF i > Len(s) THEN <<>>
    ELSE <<[time |-> s[i].time, value |-> RMul(acc, s[i].value)]>>
           \o CumProdFrom(s, i + 1, RMul(acc, s[i].value))

\* Series.cumprod()
CumProd(s) == CumProdFrom(s, 1, One)

\* (s + 1), line 174
PlusOne(s) == [i \in 1..Len(s) |-> [s[i] EXCEPT !.value = RAdd(@, One)]]

\* res[time] = value: replaces the entry labelled time, else appends one
SetItem(s, time, value) ==
    IF \E i \in 1..Len(s) : s[i].time = time
    THEN [i \in 1..Len(s) |-> IF s[i].time = time THEN [s[i] EXCEPT !.value = value] ELSE s[i]]
    ELSE Append(s, [time |-> time, value |-> value])

RECURSIVE InsertByTime(_, _)
\* e placed after the entries of the sorted s whose time is <= e.time
InsertByTime(s, e) ==
    IF s = <<>> THEN <<e>>
    ELSE IF e.time < s[1].time THEN <<e>> \o s
    ELSE <<s[1]>> \o InsertByTime(Tail(s), e)

RECURSIVE SortIndex(_)
\* Series.sort_index(): a stable insertion sort on the labels
SortIndex(s) ==
    IF s = <<>> THEN <<>>
    ELSE InsertByTime(SortIndex(SubSeq(s, 1, Len(s) - 1)), s[Len(s)])

\* pd.Timedelta('1D') on a time axis counted in days
OneDay == 1

\* the new entry appended and the series left unsorted
add_value_on_first_Unsorted(s, value, time_delta) ==
    IF s = <<>> THEN [exc |-> "IndexError", rows |-> <<>>]
    ELSE [exc |-> "none", rows |-> SetItem(s, s[1].time - time_delta, value)]

\* add_value_on_first, lines 266-272: s.index[0] raises IndexError on an
\* empty series
add_value_on_first(s, value, time_delta) ==
    IF s = <<>> THEN [exc |-> "IndexError", rows |-> <<>>]
    ELSE [exc |-> "none",
          rows |-> SortIndex(SetItem(s, s[1].time - time_delta, value))]

\* lines 160-166: one row per record, the asset weights and the cash column
WeightFrame(records) ==
    [i \in 1..Len(records) |->
        [time |-> records[i].time,
         weights |-> records[i].asset_weight,
         cash |-> records[i].cash_weight]]

\* line 193: the cash column of one row of the rebalance frame
RebalanceCash(row_weights) == RSub(RSum(row_weights, DOMAIN row_weights), One)

\* lines 190-193: one row per entry (time, weights) of Context.rebalance
RebalanceFrame(rebalance) ==
    [i \in 1..Len(rebalance) |->
        [time |-> rebalance[i][1],
         weights |-> rebalance[i][2],
         cash |-> RebalanceCash(rebalance[i][2])]]

(***************************************************************************)
(* The inputs: initial weights, cost ratios, quote feeds and the targets   *)
(* the decision hook may ask for.                                          *)
(***************************************************************************)
Half == <<1, 2>>
Quarter == <<1, 4>>
Tenth == <<1, 10>>

\* a mapping on SidSet
W(a, b) == [s \in SidSet |-> IF s = "A" THEN a ELSE b]

\* init_weight and init_cash_weight: one summing to 1 with cash, one that
\* does not sum to 1
InitWeights ==
    {[weight |-> W(Half, Quarter), cash |-> Quarter],
     [weight |-> W(Half, Quarter), cash |-> Zero]}

CostRatios == {Zero, Quarter}

\* the pct_change entries of one quote: a rise and a fall, a total loss, and
\* a quote that lacks asset B
PctChanges ==
    {W(One, <<-1, 2>>), W(<<-1, 1>>, <<-1, 1>>), [s \in {"A"} |-> Tenth]}

\* feeds of daily quotes, strictly increasing in time: the i-th on day i + 1
Feeds ==
    UNION {{[i \in 1..n |-> [time |-> i + 1, pct |-> f[i]]] :
               f \in [1..n -> PctChanges]} : n \in 0..MaxFeed}

\* the feed and the setting of the end-to-end scenarios: 0.5/0.5, no cash,
\* +0.10/-0.10, cost ratio 0 or 0.01
ScenarioQuote == [time |-> 1, pct |-> W(Tenth, <<-1, 10>>)]

ScenarioRatios == {Zero, <<1, 100>>}

\* the targets the hook may pass when the quotes are f: 0.7/0.3 in the
\* scenario and otherwise one that leaves cash, the current weights, and three
\* whose keys are not the portfolio's: one lacking B, one with an asset C, one
\* with C in place of B
Targets(p, f) ==
    {IF f = <<ScenarioQuote>> THEN W(<<7, 10>>, <<3, 10>>) ELSE W(Quarter, Half),
     p.weight,
     [s \in {"A"} |-> <<3, 4>>],
     [s \in {"A", "B", "C"} |-> Quarter],
     [s \in {"A", "C"} |-> Half]}

\* what Context.rebalance may hold when run() starts: nothing, or an entry
\* left by an earlier backtest in the same process
StaleLogs == {<<>>, <<<<0, W(Quarter, Quarter)>>>>}

\* Context before any quote has been published
NoQuotes == [time |-> 0, pct |-> [s \in {} |-> Zero]]

(***************************************************************************)
(* Which dict is which.  Python dicts are objects; two names may denote    *)
(* the same one.  "env" is the environment's _init_weight.  The operators  *)
(* below give the object each constructor or accessor ends up with.        *)
(***************************************************************************)
\* strategy.py line 80: env._init_weight.copy() is a new dict
PassedToPortfolio(envObj) == "arg"

\* _weight bound to the argument itself
PortfolioWeightObject_Same(argObj) == argObj

\* portfolio.py line 24: copy.deepcopy(init_weight) is a new dict
PortfolioWeightObject(argObj) == "own"

\* the dict Portfolio._weight denotes
WeightObject == PortfolioWeightObject(PassedToPortfolio("env"))

\* a record that keeps the dict itself
SnapshotObject_Same(weightObj) == weightObj

\* portfolio.py line 108: tuple(self._weight.items()) is a new, immutable tuple
SnapshotObject(weightObj) == "snapshot"

\* portfolio.py line 112: dict(tuple(self._weight.items())) is a new dict
AssetWeightObject(weightObj) == "fresh"

(***************************************************************************)
(* The state.                                                              *)
(*   portfolio  Strategy._portfolio                                        *)
(*   context    the class attributes of Context: cur_quotes, cur_time,     *)
(*              cursor, pre_quotes, rebalance                              *)
(*   strategy   the Strategy instance: _cursor, _records and the derived   *)
(*              attributes _s_ret, _weight, _turnover, _cost, _nv,         *)
(*              _rebalance_weight                                          *)
(*   feed       the quotes the datasource yields, in order                 *)
(*   pc         "new", "running" (inside run()'s loop), "done" (run()      *)
(*              returned), "aborted" (run() raised after it had started)   *)
(*   it         quotes the loop of the current run() has taken             *)
(*   runs       invocations of run() so far                                *)
(*   runExc     how the latest invocation of run() ended ("none": not yet) *)
(*   lastCall   the latest Portfolio update: its kind, the exception it    *)
(*              raised, the portfolio before it, the quote and the target  *)
(*   lastRead   the latest read of a derived property, its outcome and the *)
(*              pc it was read at                                          *)
(*   caller     the caller's dicts: env_init_weight (the environment's),   *)
(*              init_weight (the one passed to Portfolio), and given, the  *)
(*              mapping they held at construction                          *)
(*   hookSaw    the feed position k of the latest hook call (-1: none) and *)
(*              the Context that hook found published                      *)
(*   logged     found: Context.rebalance as the current run() found it;    *)
(*              entries: the (time, target) entries the hook has logged    *)
(*              since that run() started                                   *)
(*   held       a mapping obtained from Portfolio.asset_weight: its value, *)
(*              whether the holder has written to it, and how many records *)
(*              existed when it was read                                   *)
(***************************************************************************)
VARIABLES portfolio, context, strategy, feed, pc, it, runs, runExc, lastCall, lastRead,
          caller, hookSaw, logged, held

vars == <<portfolio, context, strategy, feed, pc, it, runs, runExc, lastCall, lastRead,
          caller, hookSaw, logged, held>>

NoTarget == [s \in {} |-> Zero]

\* Strategy.__init__, lines 76-99
NewStrategy ==
    [cursor |-> 0, records |-> <<>>,
     s_ret |-> None, weight |-> None, turnover |-> None, cost |-> None,
     nv |-> None, rebalance_weight |-> None]

Init ==
    /\ \/ /\ \E iw \in InitWeights, ratio \in CostRatios :
                portfolio = NewPortfolio(iw.weight, iw.cash, ratio)
          /\ feed \in Feeds
       \/ /\ \E ratio \in ScenarioRatios :
                portfolio = NewPortfolio(W(Half, Half), Zero, ratio)
          /\ feed = <<ScenarioQuote>>
    /\ \E stale \in StaleLogs :
          context = [cur_quotes |-> NoQuotes, cur_time |-> 0, cursor |-> 0,
                     pre_quotes |-> NoQuotes, rebalance |-> stale]
    /\ strategy = NewStrategy
    /\ pc = "new"
    /\ it = 0
    /\ runs = 0
    /\ runExc = "none"
    /\ lastCall = [op |-> "none", exc |-> "none", before |-> portfolio,
                   q |-> NoQuotes.pct, target |-> NoTarget]
    /\ lastRead = [name |-> "none", exc |-> "none", value |-> None, at |-> "new"]
    /\ caller = [env_init_weight |-> portfolio.weight, init_weight |-> portfolio.weight,
                 given |-> portfolio.weight]
    /\ hookSaw = [k |-> -1, ctx |-> context]
    /\ logged = [found |-> <<>>, entries |-> <<>>]
    /\ held = [set |-> FALSE, value |-> NoTarget, written |-> FALSE, at |-> 0]

\* the caller's dicts after Portfolio._weight has been given the content w:
\* a dict changes if it is the object _weight denotes
CallerSees(c, w) ==
    [c EXCEPT !.env_init_weight = IF WeightObject = "env" THEN w ELSE @,
              !.init_weight = IF WeightObject = PassedToPortfolio("env") THEN w ELSE @]

\* the records after Portfolio._weight has been given the content w
RecordsSee(records, w) ==
    IF SnapshotObject(WeightObject) = WeightObject
    THEN [i \in 1..Len(records) |-> [records[i] EXCEPT !.asset_weight = w]]
    ELSE records

\* the mapping read from asset_weight after _weight has been given the content w
HeldSees(h, w) ==
    IF h.set /\ AssetWeightObject(WeightObject) = WeightObject
    THEN [h EXCEPT !.value = w]
    ELSE h

\* line 144: the guard of run()
NotYetRun(s) == s.cursor = 0

\* the log left as it was
ResetRebalance_Kept(rebalance) == rebalance

\* line 147: Context.rebalance = []
ResetRebalance(rebalance) == <<>>

\* run(), lines 140-150, up to the first quote: the assertion, the reset of
\* Context.rebalance and a fresh iteration of the datasource
RunStart ==
    /\ pc # "running"
    /\ runs < MaxRuns
    /\ runs' = runs + 1
    /\ IF NotYetRun(strategy)
       THEN /\ context' = [context EXCEPT !.rebalance = ResetRebalance(@)]
            /\ it' = 0
            /\ pc' = "running"
            /\ runExc' = "none"
            /\ logged' = [found |-> context.rebalance, entries |-> <<>>]
       ELSE /\ runExc' = "AssertionError"
            /\ UNCHANGED <<context, it, pc, logged>>
    /\ UNCHANGED <<portfolio, strategy, feed, lastCall, lastRead, caller, hookSaw, held>>

\* Context with pre_quotes already set to the quote being published
Publish_PreQuotesEarly(quotes) ==
    [context EXCEPT !.cur_quotes = quotes, !.cur_time = quotes.time,
                    !.cursor = strategy.cursor, !.pre_quotes = quotes]

\* Context publishing the cursor of the next step
Publish_CursorAhead(quotes) ==
    [context EXCEPT !.cur_quotes = quotes, !.cur_time = quotes.time,
                    !.cursor = strategy.cursor + 1]

\* _on_quotes, lines 119-124: what the hook finds published
Publish(quotes) ==
    [context EXCEPT !.cur_quotes = quotes, !.cur_time = quotes.time,
                    !.cursor = strategy.cursor]

\* _on_quotes after the hook returned, lines 132-136, and line 157
StepCompletes(ctx, quotes, p) ==
    /\ context' = [ctx EXCEPT !.pre_quotes = quotes]
    /\ strategy' = [strategy EXCEPT
                      !.records = Append(RecordsSee(@, p.weight),
                                         get_portfolio_info(p, ctx.cur_time)),
                      !.cursor = @ + 1]
    /\ it' = it + 1
    /\ UNCHANGED <<pc, runExc>>

\* lines 153-155: the exception leaves run(); p is the portfolio as the hook
\* left it
StepAborts(ctx, exc, p) ==
    /\ context' = ctx
    /\ pc' = "aborted"
    /\ runExc' = exc
    /\ strategy' = [strategy EXCEPT !.records = RecordsSee(@, p.weight)]
    /\ UNCHANGED it

\* one iteration of run()'s loop whose hook calls update_by_price
StepPrice ==
    /\ pc = "running"
    /\ it < Len(feed)
    /\ LET quotes == feed[it + 1]
           ctx == Publish(quotes)
           r == update_by_price(portfolio, ctx.cur_quotes.pct)
       IN  /\ portfolio' = r.p
           /\ lastCall' = [op |-> "price", exc |-> r.exc, before |-> portfolio,
                           q |-> quotes.pct, target |-> NoTarget]
           /\ caller' = CallerSees(caller, r.p.weight)
           /\ held' = HeldSees(held, r.p.weight)
           /\ hookSaw' = [k |-> it, ctx |-> ctx]
           /\ IF r.exc = "none"
              THEN StepCompletes(ctx, quotes, r.p)
              ELSE StepAborts(ctx, r.exc, r.p)
    /\ UNCHANGED <<feed, runs, lastRead, logged>>

\* the hook's entry in the Rebalance Log: (time, target weights), appended
\* when a rebalance has taken place
LogRebalance(rebalance, time, target) == Append(rebalance, <<time, target>>)

\* one iteration whose hook calls update_by_rebalance(target) and then logs it
StepRebalance ==
    /\ pc = "running"
    /\ it < Len(feed)
    /\ \E target \in Targets(portfolio, feed) :
         LET quotes == feed[it + 1]
             ctx == Publish(quotes)
             r == update_by_rebalance(portfolio, ctx.cur_quotes.pct, target)
         IN  /\ portfolio' = r.p
             /\ lastCall' = [op |-> "rebalance", exc |-> r.exc, before |-> portfolio,
                             q |-> quotes.pct, target |-> target]
             /\ caller' = CallerSees(caller, r.p.weight)
             /\ held' = HeldSees(held, r.p.weight)
             /\ hookSaw' = [k |-> it, ctx |-> ctx]
             /\ IF r.exc = "none"
                THEN /\ StepCompletes(
                          [ctx EXCEPT !.rebalance = LogRebalance(@, ctx.cur_time, target)],
                          quotes, r.p)
                     /\ logged' = [logged EXCEPT !.entries = Append(@, <<ctx.cur_time, target>>)]
                ELSE /\ StepAborts(ctx, r.exc, r.p)
                     /\ UNCHANGED logged
    /\ UNCHANGED <<feed, runs, lastRead>>

\* one iteration whose hook raises before it has called the portfolio
StepRaise ==
    /\ pc = "running"
    /\ it < Len(feed)
    /\ StepAborts(Publish(feed[it + 1]), "HookError", portfolio)
    /\ hookSaw' = [k |-> it, ctx |-> Publish(feed[it + 1])]
    /\ UNCHANGED <<portfolio, feed, runs, lastCall, lastRead, caller, logged, held>>

\* lines 159-193, run(report=False): the derived attributes, assigned in the
\* order of the code; add_value_on_first raising (line 175) leaves the later
\* ones unassigned
Aggregate(s, rebalance) ==
    LET s_ret == DropNa(PctChangeSeries(s.records))
        cum == CumProd(PlusOne(s_ret))
        first == add_value_on_first(cum, One, OneDay)
        upto174 == [s EXCEPT !.weight = Some(WeightFrame(s.records)),
                             !.s_ret = Some(s_ret),
                             !.nv = Some(cum)]
    IN  IF first.exc # "none"
        THEN [s |-> upto174, exc |-> first.exc]
        ELSE [s |-> [upto174 EXCEPT
                      !.nv = Some(DropNa(first.rows)),
                      !.turnover = Some(DropNa(TurnoverSeries(s.records))),
                      !.cost = Some(DropNa(CostSeries(s.records))),
                      !.rebalance_weight = Some(RebalanceFrame(rebalance))],
              exc |-> "none"]

\* run() after the loop has taken the last quote
RunAggregate ==
    /\ pc = "running"
    /\ it = Len(feed)
    /\ LET r == Aggregate(strategy, context.rebalance)
       IN  /\ strategy' = r.s
           /\ pc' = IF r.exc = "none" THEN "done" ELSE "aborted"
           /\ runExc' = IF r.exc = "none" THEN "ok" ELSE r.exc
    /\ UNCHANGED <<portfolio, context, feed, it, runs, lastCall, lastRead,
                   caller, hookSaw, logged, held>>

PropertyNames == {"weight", "turnover", "pct_change", "cost", "net_value", "daily_return"}

\* lines 230-258: the attribute each property returns
PropertyValue(s, name) ==
    CASE name = "weight" -> s.weight
      [] name = "turnover" -> s.turnover
      [] name = "pct_change" -> s.s_ret
      [] name = "cost" -> s.cost
      [] name = "net_value" -> s.nv
      [] name = "daily_return" -> s.s_ret

\* lines 232, 237, 242, 247, 252, 257: the assertion of every property
PropertyGuard(s) == s.cursor # 0

\* a read of one derived property, at any time
ReadProperty ==
    /\ \E name \in PropertyNames :
         lastRead' = IF PropertyGuard(strategy)
                     THEN [name |-> name, exc |-> "none",
                           value |-> PropertyValue(strategy, name), at |-> pc]
                     ELSE [name |-> name, exc |-> "AssertionError",
                           value |-> None, at |-> pc]
    /\ UNCHANGED <<portfolio, context, strategy, feed, pc, it, runs, runExc, lastCall,
                   caller, hookSaw, logged, held>>

\* Portfolio.asset_weight, lines 110-112, read by the hook or by the caller
ReadAssetWeight ==
    /\ held' = [set |-> TRUE, value |-> portfolio.weight, written |-> FALSE,
                at |-> Len(strategy.records)]
    /\ UNCHANGED <<portfolio, context, strategy, feed, pc, it, runs, runExc, lastCall,
                   lastRead, caller, hookSaw, logged>>

\* the holder of that mapping assigns to one of its entries; the portfolio,
\* the caller's dicts and the records change if they are the same object
WriteAssetWeight ==
    /\ held.set
    /\ ~held.written
    /\ \E sid \in DOMAIN held.value :
         LET w == [held.value EXCEPT ![sid] = RAdd(@, One)]
             shared == AssetWeightObject(WeightObject) = WeightObject
         IN  /\ held' = [held EXCEPT !.value = w, !.written = TRUE]
             /\ portfolio' = IF shared THEN [portfolio EXCEPT !.weight = w] ELSE portfolio
             /\ caller' = IF shared THEN CallerSees(caller, w) ELSE caller
             /\ strategy' = IF shared
                            THEN [strategy EXCEPT !.records = RecordsSee(@, w)]
                            ELSE strategy
    /\ UNCHANGED <<context, feed, pc, it, runs, runExc, lastCall, lastRead, hookSaw, logged>>

\* the driver and the reads of the derived properties
Next ==
    \/ RunStart
    \/ StepPrice
    \/ StepRebalance
    \/ StepRaise
    \/ RunAggregate
    \/ ReadProperty

Spec == Init /\ [][Next]_vars

\* the driver and the use of Portfolio.asset_weight
NextAssetWeight ==
    \/ RunStart
    \/ StepPrice
    \/ StepRebalance
    \/ StepRaise
    \/ RunAggregate
    \/ ReadAssetWeight
    \/ WriteAssetWeight

SpecAssetWeight == Init /\ [][NextAssetWeight]_vars

(***************************************************************************)
(* Properties.  "The latest update succeeded" is read off lastCall; the    *)
(* portfolio changes only in an update, so in every such state it is the   *)
(* portfolio as that update left it.                                       *)
(***************************************************************************)
Succeeded(op) == lastCall.op = op /\ lastCall.exc = "none"

\* sum of the asset weights of portfolio p plus its cash weight
TotalWeight(p) == RAdd(RSum(p.weight, DOMAIN p.weight), p.cash_weight)

\* C1: after every successful update_by_price or update_by_rebalance the asset
\* weights and the cash weight sum to 1, whatever the initial weights, cash
\* and cost ratio were.
C1_Normalized ==
    (Succeeded("price") \/ Succeeded("rebalance")) => TotalWeight(portfolio) = One

\* a successful rebalance, at a cost, of a portfolio whose weights did not sum
\* to 1
C1_Witness ==
    /\ Succeeded("rebalance")
    /\ TotalWeight(lastCall.before) # One
    /\ portfolio.cost # Zero

\* the weights of b after the price changes q, before they are normalized
Drifted(w, q) == [a \in DOMAIN w |-> RMul(w[a], RAdd(One, q[a]))]

\* C2: after a successful update_by_price from weights w, cash c and quote r,
\* the period return is the sum of w[a]*r[a], every weight is w[a]*(1+r[a])/total
\* and the cash is c/total, with total = sum of w[a]*(1+r[a]) + c; from 0.5/0.5,
\* no cash and +0.10/-0.10 the result is 0.55/0.45, cash 0, return 0.
C2_PriceUpdate ==
    Succeeded("price") =>
        LET w == lastCall.before.weight
            c == lastCall.before.cash_weight
            r == lastCall.q
            total == RAdd(RSum(Drifted(w, r), DOMAIN w), c)
        IN  /\ portfolio.pct_change = RSum([a \in DOMAIN w |-> RMul(w[a], r[a])], DOMAIN w)
            /\ total # Zero
            /\ \A a \in DOMAIN w : portfolio.weight[a] = RDiv(Drifted(w, r)[a], total)
            /\ portfolio.cash_weight = RDiv(c, total)
            /\ (w = W(Half, Half) /\ c = Zero /\ r = ScenarioQuote.pct) =>
                  /\ portfolio.weight = W(<<11, 20>>, <<9, 20>>)
                  /\ portfolio.cash_weight = Zero
                  /\ portfolio.pct_change = Zero

\* the end-to-end scenario of update_by_price
C2_Witness ==
    /\ Succeeded("price")
    /\ lastCall.before.weight = W(Half, Half)
    /\ lastCall.q = ScenarioQuote.pct
    /\ portfolio.weight["A"] = <<11, 20>>

\* the turnover of moving from weights w to target t over the first i assets
TurnoverUpTo(w, t, i) ==
    RSum([j \in 1..i |-> RAbs(RSub(w[Sids[j]], t[Sids[j]]))], 1..i)

\* the weight the k-th asset is given at the open: its target less the cost of
\* the turnover of assets 1..k
Opened(w, t, ratio) ==
    [a \in DOMAIN w |->
        LET k == CHOOSE i \in 1..Len(Sids) : Sids[i] = a
        IN  RSub(t[a], RMul(ratio, TurnoverUpTo(w, t, k)))]

\* C3: a successful update_by_rebalance gives the k-th asset, before drift, its
\* target less costRatio times the turnover of assets 1..k; the recorded
\* turnover is the sum of |current - target| over all assets and the recorded
\* cost is that total times costRatio (0.5/0.5 -> 0.7/0.3 at ratio 0.01:
\* turnover 0.4, cost 0.004).
C3_Rebalance ==
    Succeeded("rebalance") =>
        LET w == lastCall.before.weight
            c == lastCall.before.cash_weight
            t == lastCall.target
            r == lastCall.q
            ratio == lastCall.before.trading_cost_ratio
            o == Opened(w, t, ratio)
            total == RAdd(RSum(Drifted(o, r), DOMAIN w), c)
        IN  /\ portfolio.turnover = TurnoverUpTo(w, t, Len(Sids))
            /\ portfolio.cost = RMul(portfolio.turnover, ratio)
            /\ portfolio.pct_change = RSum([a \in DOMAIN w |-> RMul(o[a], r[a])], DOMAIN w)
            /\ \A a \in DOMAIN w : portfolio.weight[a] = RDiv(Drifted(o, r)[a], total)
            /\ (w = W(Half, Half) /\ t = W(<<7, 10>>, <<3, 10>>) /\ ratio = <<1, 100>>) =>
                  portfolio.turnover = <<2, 5>> /\ portfolio.cost = <<1, 250>>

\* the end-to-end scenario of update_by_rebalance
C3_Witness ==
    /\ Succeeded("rebalance")
    /\ lastCall.before.weight = W(Half, Half)
    /\ lastCall.target = W(<<7, 10>>, <<3, 10>>)
    /\ lastCall.before.trading_cost_ratio = <<1, 100>>
    /\ portfolio.cost = <<1, 250>>

\* C4: update_by_rebalance with a target whose key set is not the portfolio's
\* raises and leaves the whole portfolio (weights, keys, cash, return, turnover,
\* cost) as it was; and the portfolio's key set is always the one it was
\* constructed with.
C4_KeyMismatch ==
    /\ DOMAIN portfolio.weight = SidSet
    /\ (lastCall.op = "rebalance" /\ DOMAIN lastCall.target # DOMAIN lastCall.before.weight) =>
          lastCall.exc = "AssertionError" /\ portfolio = lastCall.before

\* a rebalance refused for a target with an asset the portfolio does not hold,
\* after an earlier update had left turnover behind
C4_Witness ==
    /\ lastCall.op = "rebalance"
    /\ lastCall.exc = "AssertionError"
    /\ "C" \in DOMAIN lastCall.target
    /\ "B" \in DOMAIN lastCall.target
    /\ portfolio.turnover # Zero

\* C5: whatever the feed and however the first run() ended, every later
\* invocation of run() on the instance fails with the already-run assertion
\* (and so consumes no quote, calls no hook and appends no record).
C5_SecondRunRejected ==
    runs >= 2 => runExc = "AssertionError" /\ pc # "running"

\* C6: a read of a derived property made while run() has not completed
\* successfully (never started, inside the loop, or aborted) raises.
C6_ReadBeforeCompletionRaises ==
    (lastRead.name # "none" /\ lastRead.at # "done") => lastRead.exc = "AssertionError"

\* every derived attribute is assigned and has no row
AllSeriesEmpty(s) ==
    /\ s.weight = Some(<<>>)
    /\ s.s_ret = Some(<<>>)
    /\ s.nv = Some(<<>>)
    /\ s.turnover = Some(<<>>)
    /\ s.cost = Some(<<>>)
    /\ s.rebalance_weight = Some(<<>>)

\* C7: with an empty feed run() returns without an error, having made no step
\* and leaving every derived series empty.
C7_EmptyFeedCompletes ==
    (feed = <<>> /\ runs >= 1 /\ pc # "running") =>
        /\ runExc = "ok"
        /\ strategy.records = <<>>
        /\ AllSeriesEmpty(strategy)

\* C8: after a completed run the net value series has one entry more than the
\* return series, starts with 1.0 one day before the first quote, and every
\* later entry is the one before it times (1 + the return of that step).
C8_NetValue ==
    (pc = "done" /\ feed # <<>>) =>
        LET nv == strategy.nv.rows
            ret == strategy.s_ret.rows
        IN  /\ Len(nv) = Len(ret) + 1
            /\ nv[1] = [time |-> feed[1].time - 1, value |-> One]
            /\ \A i \in 2..Len(nv) :
                  /\ nv[i].time = ret[i - 1].time
                  /\ nv[i].value = RMul(nv[i - 1].value, RAdd(One, ret[i - 1].value))

\* a completed run of two steps, the second with a return other than 0
C8_Witness ==
    /\ pc = "done"
    /\ Len(strategy.nv.rows) >= 3
    /\ strategy.nv.rows[3].value # strategy.nv.rows[2].value
    /\ strategy.nv.rows[2].value # One

\* C9: every row of the rebalance-weight series has a cash column equal to
\* 1 minus the sum of the target weights recorded in that row.
C9_CashIsOneMinusSum ==
    pc = "done" =>
        \A i \in 1..Len(strategy.rebalance_weight.rows) :
            LET row == strategy.rebalance_weight.rows[i]
            IN  row.cash = RSub(One, RSum(row.weights, DOMAIN row.weights))

\* C10: after every successful update_by_price the portfolio's turnover and
\* cost are 0, and so are those of the record appended for that step.
C10_PriceIsTurnoverFree ==
    Succeeded("price") =>
        /\ portfolio.turnover = Zero
        /\ portfolio.cost = Zero
        /\ strategy.records # <<>>
        /\ strategy.records[Len(strategy.records)].turnover = Zero
        /\ strategy.records[Len(strategy.records)].cost = Zero

\* a successful update_by_price right after a rebalance that had left turnover
\* and cost
C10_Witness ==
    /\ Succeeded("price")
    /\ lastCall.before.turnover # Zero
    /\ lastCall.before.cost # Zero
    /\ Len(strategy.records) >= 2

\* C11: a successful update_by_rebalance to the current weights has turnover 0
\* and cost 0 whatever the cost ratio, and leaves exactly the weights, cash and
\* period return that update_by_price gives from the same portfolio and quote.
C11_RebalanceToCurrent ==
    (Succeeded("rebalance") /\ lastCall.target = lastCall.before.weight) =>
        LET byPrice == update_by_price(lastCall.before, lastCall.q)
        IN  /\ portfolio.turnover = Zero
            /\ portfolio.cost = Zero
            /\ byPrice.exc = "none"
            /\ portfolio.weight = byPrice.p.weight
            /\ portfolio.cash_weight = byPrice.p.cash_weight
            /\ portfolio.pct_change = byPrice.p.pct_change

\* a rebalance to the current weights at a cost ratio other than 0, on a quote
\* that moves the weights
C11_Witness ==
    /\ Succeeded("rebalance")
    /\ lastCall.target = lastCall.before.weight
    /\ lastCall.before.trading_cost_ratio # Zero
    /\ portfolio.weight # lastCall.before.weight

\* C12: the initial weight mapping passed to the Portfolio constructor, and the
\* environment's initial weights passed by the Strategy constructor, are copied:
\* no sequence of update_by_price / update_by_rebalance calls ever changes the
\* caller's original mapping.
C12_CallerMappingUntouched ==
    /\ caller.init_weight = caller.given
    /\ caller.env_init_weight = caller.given

\* two updates have completed and the portfolio's weights are no longer the ones
\* it was constructed with
C12_Witness ==
    /\ lastCall.op # "none"
    /\ Len(strategy.records) = 2
    /\ portfolio.weight # caller.given
    /\ lastCall.before.weight # caller.given

\* C13: when update_by_price or update_by_rebalance fails during a step, the
\* portfolio's asset weights, cash weight, period return, turnover and cost
\* after the failure are exactly those left by the last successful update: no
\* asset has been drifted or re-targeted and no accumulator has been reset.
C13_FailedUpdateLeavesPortfolio ==
    (lastCall.op # "none" /\ lastCall.exc # "none") =>
        /\ portfolio.weight = lastCall.before.weight
        /\ portfolio.cash_weight = lastCall.before.cash_weight
        /\ portfolio.pct_change = lastCall.before.pct_change
        /\ portfolio.turnover = lastCall.before.turnover
        /\ portfolio.cost = lastCall.before.cost

\* a new state in which run()'s loop has moved on: pc or the count of quotes
\* taken differs
LoopMoved == pc = "running" /\ it < Len(feed) /\ (pc' # pc \/ it' # it)

\* C14: a step is atomic for the driver.  If the hook raises on the quote at
\* position k, run() ends with that same error, no record is appended, the
\* cursor stays at k, no later quote is taken, the previous quote is not
\* replaced by the failing one and nothing is aggregated; otherwise the step
\* appends exactly one record and advances the cursor by one.
C14_StepAtomic ==
    [][LoopMoved =>
        \/ /\ pc' = "aborted"
           /\ runExc' \notin {"none", "ok"}
           /\ runExc' = "HookError" \/ runExc' = lastCall'.exc
           /\ strategy' = strategy
           /\ it' = it
           /\ context'.pre_quotes = context.pre_quotes
           /\ context'.pre_quotes # feed[it + 1]
        \/ /\ pc' = "running"
           /\ runExc' = runExc
           /\ Len(strategy'.records) = Len(strategy.records) + 1
           /\ SubSeq(strategy'.records, 1, Len(strategy.records)) = strategy.records
           /\ strategy'.cursor = strategy.cursor + 1
           /\ it' = it + 1
           /\ context'.pre_quotes = feed[it + 1]]_vars

\* the hook raised on the second quote: one record, cursor 1, the first quote
\* still the previous one, nothing aggregated
C14_Witness ==
    /\ pc = "aborted"
    /\ runExc = "HookError"
    /\ it = 1
    /\ strategy.cursor = 1
    /\ Len(strategy.records) = 1
    /\ Len(feed) = 2
    /\ context.cur_quotes = feed[2]
    /\ context.pre_quotes = feed[1]
    /\ strategy.nv = None

\* C15: one record per quote, in order.  At every iteration boundary of run()
\* the number of records equals the cursor and the number of quotes taken; the
\* i-th record's timestamp is the i-th quote's; after a completed run the
\* record count is the feed length.
C15_OneRecordPerQuote ==
    /\ Len(strategy.records) = strategy.cursor
    /\ strategy.cursor = it
    /\ it <= Len(feed)
    /\ \A i \in 1..Len(strategy.records) : strategy.records[i].time = feed[i].time
    /\ pc = "done" => Len(strategy.records) = Len(feed)

\* a completed run over two quotes
C15_Witness ==
    /\ pc = "done"
    /\ Len(feed) = 2
    /\ Len(strategy.records) = 2
    /\ strategy.records[2].time = feed[2].time
    /\ strategy.records[1].time # strategy.records[2].time

\* C16: whenever the hook runs for the quote at feed position k (0-based), the
\* published current quote is that quote, the current time its timestamp, the
\* cursor k and, for k >= 1, the previous quote the one at position k-1; the
\* previous quote becomes quote k only after the hook for k has returned.
C16_PublishedContext ==
    /\ hookSaw.k >= 0 =>
         /\ hookSaw.k < Len(feed)
         /\ hookSaw.ctx.cur_quotes = feed[hookSaw.k + 1]
         /\ hookSaw.ctx.cur_time = feed[hookSaw.k + 1].time
         /\ hookSaw.ctx.cursor = hookSaw.k
         /\ hookSaw.k >= 1 => hookSaw.ctx.pre_quotes = feed[hookSaw.k]
         /\ hookSaw.ctx.pre_quotes # feed[hookSaw.k + 1]
         /\ it = hookSaw.k + 1 => context.pre_quotes = feed[hookSaw.k + 1]
         /\ it = hookSaw.k => context.pre_quotes = hookSaw.ctx.pre_quotes

\* the hook for the second quote has run and returned
C16_Witness ==
    /\ hookSaw.k = 1
    /\ it = 2
    /\ hookSaw.ctx.pre_quotes = feed[1]
    /\ context.pre_quotes = feed[2]

\* C17: records are immutable snapshots.  Once appended, a record's weights,
\* cash weight, return, turnover, cost and timestamp are changed by no later
\* update or step; a mapping read through asset_weight is not changed by later
\* updates, and writing to it changes neither the portfolio nor the records.
C17_Snapshots ==
    [][/\ Len(strategy'.records) >= Len(strategy.records)
       /\ SubSeq(strategy'.records, 1, Len(strategy.records)) = strategy.records
       /\ (held.set /\ portfolio' # portfolio) => held' = held
       /\ (held.set /\ held'.written /\ ~held.written) =>
             /\ held'.value # held.value
             /\ portfolio' = portfolio
             /\ strategy' = strategy]_vars

\* a mapping was read and written to, an update came later, and two records
\* hold different weights
C17_Witness ==
    /\ held.written
    /\ held.at < Len(strategy.records)
    /\ Len(strategy.records) = 2
    /\ strategy.records[1].asset_weight # strategy.records[2].asset_weight
    /\ held.value # portfolio.weight
    /\ held.value # strategy.records[1].asset_weight

\* C18: run() empties the Rebalance Log before the first quote is taken, so the
\* rebalance-weight series of a run that follows another in the same process
\* holds exactly the rebalance events logged during that run, in the order
\* they were logged, and none from the earlier run.
C18_RebalanceLogOfThisRun ==
    /\ pc = "running" => context.rebalance = logged.entries
    /\ pc = "done" =>
         /\ strategy.rebalance_weight.set
         /\ Len(strategy.rebalance_weight.rows) = Len(logged.entries)
         /\ \A i \in 1..Len(logged.entries) :
               /\ strategy.rebalance_weight.rows[i].time = logged.entries[i][1]
               /\ strategy.rebalance_weight.rows[i].weights = logged.entries[i][2]

\* a run that found an entry of an earlier run in the log has completed with
\* two rebalances of its own
C18_Witness ==
    /\ pc = "done"
    /\ logged.found # <<>>
    /\ Len(logged.entries) = 2
    /\ Len(strategy.rebalance_weight.rows) = 2

\* x >= 0
NonNegative(x) == x[1] >= 0

\* every asset weight and the cash weight of p are non-negative
NoNegativeWeight(p) ==
    /\ \A a \in DOMAIN p.weight : NonNegative(p.weight[a])
    /\ NonNegative(p.cash_weight)

\* q quotes every asset of p, each with a return greater than -1
ReturnsAboveMinusOne(p, q) ==
    /\ DOMAIN p.weight \subseteq DOMAIN q
    /\ \A a \in DOMAIN p.weight : q[a][1] + q[a][2] > 0

\* C19: drift preserves non-negativity.  If all asset weights and the cash
\* weight are non-negative with a positive sum and every quoted return is
\* greater than -1, update_by_price succeeds and every resulting asset weight
\* and the cash weight are again non-negative.
C19_DriftKeepsNonNegative ==
    (/\ lastCall.op = "price"
     /\ NoNegativeWeight(lastCall.before)
     /\ TotalWeight(lastCall.before)[1] > 0
     /\ ReturnsAboveMinusOne(lastCall.before, lastCall.q)) =>
        /\ lastCall.exc = "none"
        /\ NoNegativeWeight(portfolio)
        /\ TotalWeight(portfolio)[1] > 0

\* a drift on a quote with a negative return, from non-negative weights
C19_Witness ==
    /\ Succeeded("price")
    /\ NoNegativeWeight(lastCall.before)
    /\ TotalWeight(lastCall.before)[1] > 0
    /\ ReturnsAboveMinusOne(lastCall.before, lastCall.q)
    /\ \E a \in DOMAIN lastCall.q : lastCall.q[a][1] < 0
    /\ portfolio.weight # lastCall.before.weight

=============================================================================
